---------------------------- MODULE Spec2Model ----------------------------
(*
  A state-machine model of the COVID-19 social-dilemma simulation:
  MainModel (src/model.py), its module-level reporters and its step(),
  driven by mesa's SingleGrid, RandomActivation and DataCollector.

  The agent class (agent.py, MainAgent) is not among the source files; the
  agent's constructor defaults and its step() are modelled from spec.md
  (sections 3, 4.1, 4.2).

  Real numbers (rates, probabilities, aspiration) are exact rationals <<n, d>>
  in lowest terms with d > 0.  A Bernoulli(p) draw is a nondeterministic
  choice over the outcomes that have non-zero probability.
*)
EXTENDS Integers, Sequences, FiniteSets, TLC

\* ------------------------------------------------------------- rationals

Abs(x) == IF x < 0 THEN -x ELSE x

RECURSIVE GCD(_, _)
GCD(a, b) == IF b = 0 THEN a ELSE GCD(b, a % b)

\* n/d in lowest terms, denominator positive (d # 0)
Rat(n, d) ==
    LET g == GCD(Abs(n), Abs(d))
        s == IF d < 0 THEN -1 ELSE 1
    IN  <<(s * n) \div g, (s * d) \div g>>

Zero == <<0, 1>>
One == <<1, 1>>
Half == <<1, 2>>

RAdd(x, y) == Rat(x[1] * y[2] + y[1] * x[2], x[2] * y[2])
RSub(x, y) == Rat(x[1] * y[2] - y[1] * x[2], x[2] * y[2])
RMul(x, y) == Rat(x[1] * y[1], x[2] * y[2])
\* x / y for y # 0
RDiv(x, y) == Rat(x[1] * y[2], x[2] * y[1])
RLess(x, y) == x[1] * y[2] < y[1] * x[2]
RLeq(x, y) == x[1] * y[2] <= y[1] * x[2]
FromInt(n) == <<n, 1>>

\* ------------------------------------------------- enumerations, tables

\* class InfectionState(enum.IntEnum)
CLEAN == 0
INFECTED == 1
RECOVERED == 2
DEAD == 3

\* class QuarantineState(enum.IntEnum)
QUARANTINE == 3
FREE == 4

InfectionStates == {CLEAN, INFECTED, RECOVERED, DEAD}
QuarantineStates == {QUARANTINE, FREE}

\* self.action_count and the keys of self.action_infection_prob
action_count == 4
Actions == {"Stay In", "Party", "Buy grocery", "Help elderly"}

\* self.action_infection_prob
action_infection_prob ==
    [a \in Actions |->
        CASE a = "Stay In" -> <<1, 10>>
          [] a = "Party" -> <<7, 10>>
          [] a = "Buy grocery" -> <<1, 2>>
          [] a = "Help elderly" -> <<1, 2>>]

\* self.quarantine_prob
quarantine_prob == <<3, 10>>

\* ---------------------------------------------------------------- bounds

\* step() is called at most MaxTicks times
MaxTicks == 3

\* -------------------------------------------------------------- the state

VARIABLES
    population_density, death_rate, transfer_rate, initial_infection_rate,
    width, height, recovery_days,
    government_action_threshold, government_stringent,
    habituation, learning_rate, global_aspiration,
    dead_agents_number, lockdown, step_counter,
    grid,               \* SingleGrid: cell <<x, y>> -> agent id, or 0 for None
    schedule_agents,    \* RandomActivation.agents: the ids 1..n
    schedule_time,      \* RandomActivation.time
    total_population, running,
    agents,             \* agent id -> the MainAgent's fields
    model_vars,         \* DataCollector: the values appended by the last collect()
    pc,                 \* position of step(): "idle" or "schedule"
    pending,            \* agents the scheduler pass has still to activate
    error               \* the exception the last call of step() raised, or "none"

params == <<population_density, death_rate, transfer_rate, initial_infection_rate,
            width, height, recovery_days,
            government_action_threshold, government_stringent,
            habituation, learning_rate, global_aspiration>>

fixed == <<grid, schedule_agents, total_population>>

vars == <<params, fixed, dead_agents_number, lockdown, step_counter,
          schedule_time, running, agents, model_vars, pc, pending, error>>

\* ------------------------------------------------------ random draws

\* the outcomes of a draw that succeeds with probability p
Bernoulli(p) ==
    (IF RLess(Zero, p) THEN {TRUE} ELSE {}) \cup (IF RLess(p, One) THEN {FALSE} ELSE {})

\* self.random.random() < p, random() being in [0, 1)
RandomBelow(p) == Bernoulli(p)


\* ------------------------------------------- agents, as the model sees them

\* MainAgent(i, model, (x, y)): the fields a new agent starts with
MainAgent(pos, aspiration0) ==
    [pos |-> pos,
     infectionstate |-> CLEAN,
     quarantinestate |-> FREE,
     infected_time |-> 0,
     aspiration |-> aspiration0,
     action_prob |-> [a \in Actions |-> Rat(1, action_count)],
     action_done |-> <<>>]   \* only action_done[-1] is ever read: the last action is kept

\* the agents of model.schedule.agents in state s
AgentsIn(st) == {i \in schedule_agents : agents[i].infectionstate = st}

LCM(a, b) == (a \div GCD(a, b)) * b

RECURSIVE CommonDen(_, _)
\* the least common denominator of f[i], i in S
CommonDen(f, S) ==
    IF S = {} THEN 1
    ELSE LET i == CHOOSE j \in S : TRUE IN LCM(f[i][2], CommonDen(f, S \ {i}))

RECURSIVE NumSum(_, _, _)
\* the sum of the numerators of f[i], i in S, over the common denominator D
NumSum(f, S, D) ==
    IF S = {} THEN 0
    ELSE LET i == CHOOSE j \in S : TRUE
         IN  f[i][1] * (D \div f[i][2]) + NumSum(f, S \ {i}, D)

\* sum(list) of the rationals f[i], i in S (0 for the empty list)
RSum(f, S) == Rat(NumSum(f, S, CommonDen(f, S)), CommonDen(f, S))

\* a call's outcome: the value returned, or the exception raised
Ok(v) == [exc |-> "none", val |-> v]
Raise(e) == [exc |-> e, val |-> Zero]

\* ------------------------------------------ module-level reporters

get_susceptible_number == Cardinality(AgentsIn(CLEAN))

get_infected_number == Cardinality(AgentsIn(INFECTED))

get_recovered_number == Cardinality(AgentsIn(RECOVERED))

get_dead_number == dead_agents_number

\* a.action_done[-1] raises IndexError on an empty list; the except returns 0
get_stay_in ==
    IF \E i \in schedule_agents : agents[i].action_done = <<>> THEN 0
    ELSE Cardinality({i \in schedule_agents : agents[i].action_done[1] = "Stay In"})

get_go_out ==
    IF \E i \in schedule_agents : agents[i].action_done = <<>> THEN 0
    ELSE Cardinality({i \in schedule_agents : agents[i].action_done[1] # "Stay In"})

\* returns sum(aspiration_list): the sum is not divided
get_average_aspiration ==
    Ok(RSum([i \in schedule_agents |-> agents[i].aspiration], schedule_agents))

\* the value of the loop variable i after "for i, a in enumerate(agents)":
\* unbound for no agent, else the last index n - 1
LastIndex == Cardinality(schedule_agents) - 1

\* sum(l) / i, i the loop variable left by enumerate
DivideByLastIndex(total) ==
    IF schedule_agents = {} THEN Raise("UnboundLocalError")
    ELSE IF LastIndex = 0 THEN Raise("ZeroDivisionError")
    ELSE Ok(RDiv(total, FromInt(LastIndex)))

get_average_stay_in ==
    DivideByLastIndex(
        RSum([i \in schedule_agents |-> agents[i].action_prob["Stay In"]], schedule_agents))

get_average_go_out ==
    DivideByLastIndex(
        RSum([i \in schedule_agents |->
                RAdd(RAdd(agents[i].action_prob["Party"],
                          agents[i].action_prob["Help elderly"]),
                     agents[i].action_prob["Buy grocery"])],
             schedule_agents))

\* ------------------------------------------------ MainModel's queries

\* the agents on the grid (cell[0] is not None) in state st
OnGrid(st) ==
    {c \in DOMAIN grid : grid[c] # 0 /\ agents[grid[c]].infectionstate = st}

model_get_stay_in_number == get_stay_in

model_get_stay_out_number == get_go_out

\* try: total / i  except Exception: return 0
model_get_avg_aspiration ==
    LET r == DivideByLastIndex(
                RSum([i \in schedule_agents |-> agents[i].aspiration], schedule_agents))
    IN  IF r.exc = "none" THEN r ELSE Ok(Zero)

\* a mutant of model_get_susceptible_number: every agent on the grid is counted
model_get_susceptible_number_all == Cardinality({c \in DOMAIN grid : grid[c] # 0})

model_get_susceptible_number == Cardinality(OnGrid(CLEAN))

model_get_infection_number == Cardinality(OnGrid(INFECTED))

model_get_recovered_number == Cardinality(OnGrid(RECOVERED))

\* a mutant of model_get_dead_number: the body of get_recovered_number
model_get_dead_number_copied == Cardinality(OnGrid(RECOVERED))

model_get_dead_number == dead_agents_number

\* ----------------------------------------------------- construction

\* grid.coord_iter(): x outer, y inner
Cells(w, h) == (0 .. w - 1) \X (0 .. h - 1)
CoordIndex(c, h) == c[1] * h + c[2]

\* the id (unique_id + 1, in 1..n) of the agent created while cell c is visited,
\* cells being visited in coord_iter order and occ the visits that create an agent
IdOf(c, occ, h) == 1 + Cardinality({d \in occ : CoordIndex(d, h) < CoordIndex(c, h)})

\* a mutant of PlacedAt: the agent is scheduled but never put on the grid
PlacedAt_nowhere(c, place) == 0

\* the content of cell c after the placement loop, place[i] being the cell agent i
\* was put on: the agent on it, 0 for an empty cell
PlacedAt(c, place) ==
    IF \E i \in DOMAIN place : place[i] = c
    THEN CHOOSE i \in DOMAIN place : place[i] = c
    ELSE 0

\* a mutant of InitialQuarantine: the agents infected at construction are quarantined
InitialQuarantine_quarantined == QUARANTINE

\* agent.quarantinestate = QuarantineState.FREE for an agent infected at construction
InitialQuarantine == FREE

\* the cell visits of the placement loop that can create an agent under cfg
Occupations(cfg) ==
    {occ \in SUBSET Cells(cfg.width, cfg.height) :
        /\ (occ # {} => TRUE \in RandomBelow(cfg.population_density))
        /\ (occ # Cells(cfg.width, cfg.height) => FALSE \in RandomBelow(cfg.population_density))}

\* the initial infections np.random.choice can draw among the agents created
Infections(cfg, occ) ==
    {inf \in SUBSET occ :
        /\ (inf # {} => TRUE \in Bernoulli(cfg.initial_infection_rate))
        /\ (inf # occ => FALSE \in Bernoulli(cfg.initial_infection_rate))}

\* the cells grid.position_agent(agent, (x, y)) can give the agents: the tuple is
\* bound to the parameter x and y keeps its default "random", so SingleGrid puts
\* each agent on a random empty cell (and sets agent.pos to it), whatever cell
\* is being visited
Placements(cfg, occ) ==
    {place \in [1 .. Cardinality(occ) -> Cells(cfg.width, cfg.height)] :
        \A i, j \in 1 .. Cardinality(occ) : place[i] = place[j] => i = j}

\* MainModel.__init__(cfg) having created an agent at the visits occ, infected
\* those created at the visits inf, and put agent i on cell place[i]
Construct(cfg, occ, inf, place) ==
    /\ population_density = cfg.population_density
    /\ death_rate = cfg.death_rate
    /\ width = cfg.width
    /\ height = cfg.height
    /\ transfer_rate = cfg.transfer_rate
    /\ initial_infection_rate = cfg.initial_infection_rate
    /\ recovery_days = cfg.recovery_days
    /\ dead_agents_number = 0
    /\ government_action_threshold = cfg.government_action_threshold
    /\ government_stringent = cfg.government_stringent
    /\ lockdown = FALSE
    /\ habituation = cfg.habituation
    /\ learning_rate = cfg.learning_rate
    /\ global_aspiration = cfg.global_aspiration
    /\ step_counter = 0
    /\ schedule_time = 0
    /\ grid = [c \in Cells(cfg.width, cfg.height) |-> PlacedAt(c, place)]
    /\ schedule_agents = 1 .. Cardinality(occ)
    /\ agents = [i \in 1 .. Cardinality(occ) |->
                   LET c == CHOOSE d \in occ : IdOf(d, occ, cfg.height) = i
                       a == MainAgent(place[i], cfg.global_aspiration)
                   IN  IF c \in inf
                       THEN [a EXCEPT !.infectionstate = INFECTED,
                                      !.quarantinestate = InitialQuarantine,
                                      !.infected_time = 0]
                       ELSE a]
    /\ total_population = Cardinality(occ)
    /\ running = TRUE
    /\ model_vars = [model |-> <<>>, agent |-> <<>>]
    /\ pc = "idle"
    /\ pending = {}
    /\ error = "none"


\* --------------------------------------------- the agent's activation

\* the payoffs an action can realise: below, at and above the initial aspiration
Stimuli == {Zero, Half, One}

\* aspiration += learningRate * (stimulus - aspiration), over one denominator:
\* asp + lr * (s - asp) = (asp.n * lr.d * s.d + lr.n * (s.n * asp.d - asp.n * s.d))
\*                        / (asp.d * lr.d * s.d)
UpdateAspiration(asp, s, lr) ==
    Rat(asp[1] * lr[2] * s[2] + lr[1] * (s[1] * asp[2] - asp[1] * s[2]),
        asp[2] * lr[2] * s[2])

\* x + h * (1 - x)
Grow(x, h) == Rat(x[1] * h[2] + h[1] * (x[2] - x[1]), x[2] * h[2])

\* x - h * x
Shrink(x, h) == Rat(x[1] * (h[2] - h[1]), x[2] * h[2])

\* y + (h * x) * y / (1 - x): y's proportional share of the mass h * x freed by x;
\* for x = 1 every other probability is 0, the shares are 0 / 0 and nothing is
\* added to y
Refill(y, x, h) ==
    IF x = One THEN y
    ELSE Rat(y[1] * (h[2] * (x[2] - x[1]) + h[1] * x[1]), y[2] * h[2] * (x[2] - x[1]))

\* the guard of the update, first part: a probability below 0 or above 1 is clamped
Clamp(x) == IF RLess(x, Zero) THEN Zero ELSE IF RLess(One, x) THEN One ELSE x

\* the guard of the update, second part: the clamped mapping is divided by its
\* total; a total of 0 leaves nothing to divide by and the mapping stays as it
\* is, as it does with a total of 1
Renormalize(p) ==
    LET total == RSum(p, Actions)
    IN  IF total = Zero \/ total = One THEN p
        ELSE [b \in Actions |-> RDiv(p[b], total)]

\* the exact rule for the chosen action a, before the guard
RawUpdate(p, a, s, asp, h) ==
    IF RLeq(asp, s)
    THEN [b \in Actions |-> IF b = a THEN Grow(p[a], h) ELSE Shrink(p[b], h)]
    ELSE [b \in Actions |-> IF b = a THEN Shrink(p[a], h) ELSE Refill(p[b], p[a], h)]

\* a mutant of UpdateProb: the other actions are halved on a reward, whatever h is
UpdateProb_halved(p, a, s, asp, h) ==
    IF RLeq(asp, s)
    THEN [b \in Actions |-> IF b = a THEN Grow(p[a], h) ELSE Shrink(p[b], Half)]
    ELSE [b \in Actions |-> IF b = a THEN Shrink(p[a], h) ELSE Refill(p[b], p[a], h)]

\* a mutant of UpdateProb: the mass a penalty frees is not given to the others
UpdateProb_lost(p, a, s, asp, h) ==
    IF RLeq(asp, s)
    THEN [b \in Actions |-> IF b = a THEN Grow(p[a], h) ELSE Shrink(p[b], h)]
    ELSE [b \in Actions |-> IF b = a THEN Shrink(p[a], h) ELSE p[b]]

\* the probability update for the chosen action a with stimulus s:
\*   s >= aspiration: p[a] += h * (1 - p[a]); every other action shrinks
\*                    proportionally (by the factor 1 - h), so the total stays 1
\*   else:            p[a] -= h * p[a]; the freed mass is redistributed
\*                    proportionally to the other actions
\* then the guard: clamp every probability and renormalise the mapping
UpdateProb(p, a, s, asp, h) ==
    LET raw == RawUpdate(p, a, s, asp, h)
    IN  Renormalize([b \in Actions |-> Clamp(raw[b])])

\* the behaviour model: record the action drawn, update aspiration, then the probabilities
Behave(ag, action, s) ==
    LET asp == UpdateAspiration(ag.aspiration, s, learning_rate)
    IN  [ag EXCEPT !.action_done = <<action>>,
                   !.aspiration = asp,
                   !.action_prob = UpdateProb(ag.action_prob, action, s, asp, habituation)]

\* a mutant of CanInfect: the agent's own state is not looked at
CanInfect_reinfect(ag, action) == action # "Stay In"

\* a mutant of CanInfect: the action drawn is not looked at
CanInfect_stayin(ag, action) == ag.infectionstate = CLEAN

\* transmission is tried for a Clean agent that chose an action other than "Stay In"
CanInfect(ag, action) == ag.infectionstate = CLEAN /\ action # "Stay In"

\* transmission: on a successful draw the agent is Infected from now on
Transmit(ag, action, infect, quarantine) ==
    IF infect
    THEN [ag EXCEPT !.infectionstate = INFECTED,
                    !.infected_time = schedule_time,
                    !.quarantinestate = IF quarantine THEN QUARANTINE ELSE FREE]
    ELSE ag

\* a mutant of Due: the agent leaves one tick late
Due_late(ag) ==
    ag.infectionstate = INFECTED /\ schedule_time - ag.infected_time > recovery_days

\* whether an Infected agent leaves that state in this activation
Due(ag) ==
    ag.infectionstate = INFECTED /\ schedule_time - ag.infected_time >= recovery_days

\* progression: death or recovery once recovery_days have passed
Progress(ag, dies) ==
    IF Due(ag)
    THEN [ag EXCEPT !.infectionstate = IF dies THEN DEAD ELSE RECOVERED]
    ELSE ag

\* MainAgent.step() of agent i, called by schedule.step()
Activate(i) ==
    /\ pc = "schedule"
    /\ i \in pending
    /\ pending' = pending \ {i}
    /\ IF agents[i].infectionstate = DEAD
       THEN UNCHANGED <<agents, dead_agents_number>>
       ELSE \E action \in {a \in Actions : RLess(Zero, agents[i].action_prob[a])} :
            \E b \in {Behave(agents[i], action, s) : s \in Stimuli} :
                \E infect \in (IF CanInfect(b, action)
                               THEN Bernoulli(RMul(action_infection_prob[action], transfer_rate))
                               ELSE {FALSE}) :
                \E quarantine \in (IF infect THEN Bernoulli(quarantine_prob) ELSE {FALSE}) :
                LET t == Transmit(b, action, infect, quarantine)
                IN  \E dies \in (IF Due(t) THEN Bernoulli(death_rate) ELSE {FALSE}) :
                    LET g == Progress(t, dies)
                    IN  /\ agents' = [agents EXCEPT ![i] = g]
                        /\ dead_agents_number' =
                              IF g.infectionstate = DEAD
                              THEN dead_agents_number + 1
                              ELSE dead_agents_number
    /\ UNCHANGED <<params, fixed, lockdown, step_counter, schedule_time, running,
                   model_vars, pc, error>>

\* ------------------------------------------------------ MainModel.step

\* the model reporters in the order of the DataCollector's dictionary
Reporters == <<"Infected", "Recovered", "Dead", "Stay In", "Go Out", "Susceptible",
               "Aspiration", "Average Aspiration", "Average Stay In", "Average Get Out">>

\* what reporter r returns or raises in the current state
Report(r) ==
    CASE r = "Infected" -> Ok(get_infected_number)
      [] r = "Recovered" -> Ok(get_recovered_number)
      [] r = "Dead" -> Ok(get_dead_number)
      [] r = "Stay In" -> Ok(get_stay_in)
      [] r = "Go Out" -> Ok(get_go_out)
      [] r = "Susceptible" -> Ok(get_susceptible_number)
      [] r = "Aspiration" -> get_average_aspiration
      [] r = "Average Aspiration" -> get_average_aspiration
      [] r = "Average Stay In" -> get_average_stay_in
      [] r = "Average Get Out" -> get_average_go_out

\* the exception datacollector.collect(self) raises: that of the first reporter that raises
CollectError ==
    IF \A k \in 1 .. Len(Reporters) : Report(Reporters[k]).exc = "none" THEN "none"
    ELSE LET k == CHOOSE j \in 1 .. Len(Reporters) :
                    /\ Report(Reporters[j]).exc # "none"
                    /\ \A m \in 1 .. j - 1 : Report(Reporters[m]).exc = "none"
         IN  Report(Reporters[k]).exc

\* the values collect() has appended when a reporter raises: those of the model
\* reporters before the first one that raises; no agent row is reached
CollectPartial ==
    LET k == CHOOSE j \in 1 .. Len(Reporters) :
                /\ Report(Reporters[j]).exc # "none"
                /\ \A l \in 1 .. j - 1 : Report(Reporters[l]).exc = "none"
    IN  [model |-> [l \in 1 .. k - 1 |-> Report(Reporters[l]).val],
         agent |-> model_vars.agent]

\* the row datacollector.collect(self) records: the model reporters' values, then
\* each agent's (quarantinestate, infectionstate)
CollectRow ==
    [model |-> [k \in 1 .. Len(Reporters) |-> Report(Reporters[k]).val],
     agent |-> [i \in schedule_agents |->
                  <<agents[i].quarantinestate, agents[i].infectionstate>>]]

\* a mutant of PassAgents: the pass skips the Dead agents
PassAgents_live == schedule_agents \ AgentsIn(DEAD)

\* the agents one schedule.step() activates: every agent of the schedule
PassAgents == schedule_agents

\* step(), to the start of the scheduler pass: count the step, collect the metrics;
\* an exception of a reporter ends the call
StepBegin ==
    /\ pc = "idle"
    /\ step_counter < MaxTicks
    /\ step_counter' = step_counter + 1
    /\ IF CollectError # "none"
       THEN /\ error' = CollectError
            /\ model_vars' = CollectPartial
            /\ UNCHANGED <<pc, pending>>
       ELSE /\ error' = "none"
            /\ model_vars' = CollectRow
            /\ pc' = "schedule"
            /\ pending' = PassAgents
    /\ UNCHANGED <<params, fixed, dead_agents_number, lockdown, schedule_time,
                   running, agents>>

\* a mutant of LockdownCheck: the comparison is not strict
LockdownCheck_geq ==
    RLeq(government_action_threshold, Rat(model_get_infection_number, total_population))

\* get_infection_number() / total_population > government_action_threshold
LockdownCheck ==
    RLess(government_action_threshold, Rat(model_get_infection_number, total_population))

\* a mutant of TerminationCheck: the susceptible agents are not counted
TerminationCheck_nosusceptible ==
    model_get_recovered_number + model_get_dead_number = total_population

\* get_recovered_number() + get_dead_number() + get_susceptible_number() == total_population
TerminationCheck ==
    model_get_recovered_number + model_get_dead_number + model_get_susceptible_number
        = total_population

\* a mutant of LockdownAfter: the flag follows the check
LockdownAfter_follow == LockdownCheck

\* if the share is above the threshold: self.lockdown = True
LockdownAfter == lockdown \/ LockdownCheck

\* if the check holds: self.running = False
RunningAfter == running /\ ~TerminationCheck

\* a mutant of StepEnd: the metrics are collected again after the pass
StepEnd_collectafter ==
    /\ pc = "schedule"
    /\ pending = {}
    /\ schedule_time' = schedule_time + 1
    /\ pc' = "idle"
    /\ model_vars' = CollectRow
    /\ IF total_population = 0
       THEN /\ error' = "ZeroDivisionError"
            /\ UNCHANGED <<lockdown, running>>
       ELSE /\ lockdown' = LockdownAfter
            /\ running' = RunningAfter
            /\ UNCHANGED error
    /\ UNCHANGED <<params, fixed, dead_agents_number, step_counter, agents, pending>>

\* step(), after the last activation: the scheduler's clock advances, then the
\* lockdown check and the termination check
StepEnd ==
    /\ pc = "schedule"
    /\ pending = {}
    /\ schedule_time' = schedule_time + 1
    /\ pc' = "idle"
    /\ IF total_population = 0
       THEN /\ error' = "ZeroDivisionError"
            /\ UNCHANGED <<lockdown, running>>
       ELSE /\ lockdown' = LockdownAfter
            /\ running' = RunningAfter
            /\ UNCHANGED error
    /\ UNCHANGED <<params, fixed, dead_agents_number, step_counter, agents,
                   model_vars, pending>>

Next ==
    \/ StepBegin
    \/ \E i \in schedule_agents : Activate(i)
    \/ StepEnd

\* ------------------------------------------------- the constructions checked

BaseCfg ==
    [population_density |-> Half, death_rate |-> Half, transfer_rate |-> Half,
     initial_infection_rate |-> Half, width |-> 2, height |-> 1,
     government_stringent |-> Half, government_action_threshold |-> Half,
     global_aspiration |-> Half, recovery_days |-> 1,
     habituation |-> Half, learning_rate |-> Half]

\* the general constructions: a grid of two cells, any population on it, any
\* initial infections; the learning parameters are 0, which leaves the action
\* probabilities and the aspiration as constructed
Configs ==
    {[BaseCfg EXCEPT !.population_density = d, !.recovery_days = r,
                     !.habituation = Zero, !.learning_rate = Zero]
        : d \in {Zero, Half}, r \in {1, 2}}

\* the learning agents: two agents, infected at construction, that learn in every
\* activation until they die; habituation at both ends of [0, 1] and inside
LearningConfigs ==
    {[BaseCfg EXCEPT !.population_density = One, !.initial_infection_rate = One,
                     !.death_rate = One, !.recovery_days = 1,
                     !.habituation = h, !.learning_rate = Half]
        : h \in {Zero, Half, One}}

InitOf(C) ==
    \E cfg \in C : \E occ \in Occupations(cfg) : \E inf \in Infections(cfg, occ) :
        \E place \in Placements(cfg, occ) : Construct(cfg, occ, inf, place)

Init == InitOf(Configs)

Spec == Init /\ [][Next]_vars

InitLearning == InitOf(LearningConfigs)

SpecLearning == InitLearning /\ [][Next]_vars


\* =========================================================== the claims

\* the arithmetic mean of the rationals f[i] over the n >= 1 scheduled agents
Mean(f) == RDiv(RSum(f, schedule_agents), FromInt(Cardinality(schedule_agents)))

\* a call of step() has run to its end and the model is between two calls
StepCompleted == pc = "idle" /\ error = "none" /\ step_counter > 0

\* C1: a model constructed with populationDensity = 0 has totalPopulation = 0, and
\* every aggregate query (the counts by state, the stay-in and go-out counts, the
\* average aspiration, the average stay-in and go-out probabilities) returns 0
\* and raises no error.
C1_ZeroPopulationQueriesReturnZero ==
    population_density = Zero =>
        /\ total_population = 0
        /\ get_susceptible_number = 0
        /\ get_infected_number = 0
        /\ get_recovered_number = 0
        /\ get_dead_number = 0
        /\ get_stay_in = 0
        /\ get_go_out = 0
        /\ model_get_susceptible_number = 0
        /\ model_get_infection_number = 0
        /\ model_get_recovered_number = 0
        /\ model_get_dead_number = 0
        /\ model_get_stay_in_number = 0
        /\ model_get_stay_out_number = 0
        /\ get_average_aspiration = Ok(Zero)
        /\ model_get_avg_aspiration = Ok(Zero)
        /\ get_average_stay_in = Ok(Zero)
        /\ get_average_go_out = Ok(Zero)

\* C3: in every step of every run an agent's infection state stays as it is or
\* moves along Clean -> Infected -> {Recovered, Dead}: a Recovered or Dead agent
\* keeps its state, an Infected agent never returns to Clean, and a Clean agent
\* becomes Recovered or Dead only by way of Infected.
C3_InfectionStateMonotonic ==
    [][\A i \in schedule_agents :
          \/ agents'[i].infectionstate = agents[i].infectionstate
          \/ agents[i].infectionstate = CLEAN /\ agents'[i].infectionstate = INFECTED
          \/ /\ agents[i].infectionstate = INFECTED
             /\ agents'[i].infectionstate \in {RECOVERED, DEAD}]_vars

\* a Recovered and a Dead agent that the third scheduler pass activated again
C3_Witness ==
    /\ recovery_days = 1 /\ step_counter = 3 /\ StepCompleted
    /\ \E i \in schedule_agents : agents[i].infectionstate = RECOVERED
    /\ \E i \in schedule_agents : agents[i].infectionstate = DEAD

\* recovered + dead + susceptible == totalPopulation, counted from the agents
NoInfectedLeft ==
    Cardinality({i \in schedule_agents : agents[i].infectionstate \in {RECOVERED, CLEAN}})
        + dead_agents_number = total_population

\* C4: when a call of step() ends with recovered + dead + susceptible ==
\* totalPopulation, running is false at the end of that call; and once running is
\* false it is false after every later step.
C4_TerminationIsFinal ==
    [][/\ (StepCompleted' /\ NoInfectedLeft' => ~running')
       /\ (~running => ~running')]_vars

\* the model has halted and a later call of step() is under way
C4_Witness == ~running /\ pc = "schedule" /\ pending = {}

\* C5: lockdown is false after construction, and once true it stays true, also
\* when the share of infected agents is at or below the threshold again.
C5_LockdownSticky ==
    /\ lockdown = FALSE
    /\ [][lockdown => lockdown']_vars

\* lockdown is on although the share of infected agents is not above the threshold
C5_Witness == lockdown /\ StepCompleted /\ ~LockdownCheck

\* C6: deadAgentsNumber is 0 after construction and never decreases, and
\* get_dead_number() returns its current value.
C6_DeadNumberNonDecreasing ==
    /\ dead_agents_number = 0
    /\ model_get_dead_number = dead_agents_number
    /\ [][/\ dead_agents_number' >= dead_agents_number
          /\ model_get_dead_number' = dead_agents_number']_vars

C6_Witness ==
    /\ dead_agents_number >= 1
    /\ \E i \in schedule_agents : agents[i].infectionstate = RECOVERED

\* C7: with habituation = 0 no step changes any agent's action probabilities,
\* whichever action was drawn and whether the update rewarded or penalised it.
C7_HabituationZeroKeepsProbabilities ==
    [][habituation = Zero =>
          \A i \in schedule_agents : agents'[i].action_prob = agents[i].action_prob]_vars

\* habituation = 0, one agent whose last update was a reward (its aspiration rose)
\* and one whose last update was a penalty (its aspiration fell)
C7_Witness ==
    /\ habituation = Zero
    /\ \E i \in schedule_agents : RLess(global_aspiration, agents[i].aspiration)
    /\ \E i \in schedule_agents : RLess(agents[i].aspiration, global_aspiration)

\* the four action probabilities of agent i are each within [0, 1]
InUnitInterval(i) ==
    \A a \in Actions :
        RLeq(Zero, agents[i].action_prob[a]) /\ RLeq(agents[i].action_prob[a], One)

C9_AveragesAreMeans ==
    total_population >= 1 =>
        /\ get_average_aspiration =
              Ok(Mean([i \in schedule_agents |-> agents[i].aspiration]))
        /\ model_get_avg_aspiration =
              Ok(Mean([i \in schedule_agents |-> agents[i].aspiration]))
        /\ get_average_stay_in =
              Ok(Mean([i \in schedule_agents |-> agents[i].action_prob["Stay In"]]))
        /\ get_average_go_out =
              Ok(Mean([i \in schedule_agents |->
                         RAdd(RAdd(agents[i].action_prob["Party"],
                                   agents[i].action_prob["Help elderly"]),
                              agents[i].action_prob["Buy grocery"])]))

\* C10: no call of step() raises an error, whatever the population.
C10_StepNeverFails == error = "none"


\* ---------------------------------------------------------------- C11 .. C19

\* the agents of the schedule that are Infected, out of the constructed population
InfectedShare == Rat(Cardinality(AgentsIn(INFECTED)), total_population)

\* a transition that is the end of a call of step() that ran its checks
ChecksRun == pc = "schedule" /\ pc' = "idle" /\ error' = "none"

\* C11: lockdown is false after construction, whatever was seeded; at the end of a
\* step() it is true exactly when it was true before or the share of Infected agents
\* at that point is strictly above the threshold; nothing else changes it
C11_LockdownTriggerStrictAfterPass ==
    /\ ~lockdown
    /\ [][IF ChecksRun
          THEN lockdown' = (lockdown \/ RLess(government_action_threshold, InfectedShare'))
          ELSE lockdown' = lockdown]_vars

\* a step() has ended with the share exactly at the threshold and no lockdown
C11_Witness ==
    /\ StepCompleted
    /\ total_population > 0
    /\ AgentsIn(INFECTED) # {}
    /\ InfectedShare = government_action_threshold
    /\ ~lockdown

\* the metrics of the current state, read from the agents
RowNow ==
    <<Cardinality(AgentsIn(INFECTED)), Cardinality(AgentsIn(RECOVERED)), dead_agents_number,
      Cardinality({i \in schedule_agents : agents[i].action_done = <<"Stay In">>}),
      Cardinality({i \in schedule_agents :
                      agents[i].action_done # <<>> /\ agents[i].action_done # <<"Stay In">>}),
      Cardinality(AgentsIn(CLEAN))>>

\* C12: the row of a step() is collected when the step begins, from the state the
\* previous step (or the construction) left, and no activation or check changes it;
\* lockdown, running and the clock change only after the last activation of the pass,
\* so every activation of a pass sees the lockdown of the end of the previous step
C12_CollectBeforePassChecksAfter ==
    [][/\ (pc = "idle" /\ pc' = "schedule") =>
             /\ \A k \in 1 .. 6 : model_vars'.model[k] = RowNow[k]
             /\ \A i \in schedule_agents :
                   model_vars'.agent[i] = <<agents[i].quarantinestate, agents[i].infectionstate>>
             /\ agents' = agents
       /\ pc = "schedule" => model_vars' = model_vars
       /\ (pc = "schedule" /\ pc' = "schedule") =>
             /\ lockdown' = lockdown
             /\ running' = running
             /\ schedule_time' = schedule_time
       /\ (pc = "schedule" /\ pc' = "idle") => pending = {} /\ agents' = agents
       /\ pc' = "schedule" => lockdown' = lockdown /\ running' = running]_vars

\* all agents of a pass have acted, the state differs from the row collected for
\* the step, and the lockdown the share calls for is not set yet
C12_Witness ==
    /\ pc = "schedule"
    /\ pending = {}
    /\ model_vars.model[1] # Cardinality(AgentsIn(INFECTED))
    /\ total_population > 0
    /\ RLess(government_action_threshold, InfectedShare)
    /\ ~lockdown

\* C13: a pass starts with every agent of the schedule pending, each activation
\* takes one pending agent and changes no other agent, and the pass ends when
\* nobody is pending; no agent leaves the schedule or the grid, and the
\* activation of a Dead agent changes neither that agent nor the death counter
C13_EveryAgentOncePerStep ==
    [][/\ schedule_agents' = schedule_agents
       /\ grid' = grid
       /\ (pc = "idle" /\ pc' = "schedule") => pending' = schedule_agents
       /\ (pc = "schedule" /\ pc' = "schedule") =>
             \E i \in pending :
                /\ pending' = pending \ {i}
                /\ \A j \in schedule_agents \ {i} : agents'[j] = agents[j]
                /\ agents[i].infectionstate = DEAD =>
                      /\ agents'[i] = agents[i]
                      /\ dead_agents_number' = dead_agents_number
       /\ (pc = "schedule" /\ pc' = "idle") => pending = {}
       /\ pc = "idle" => agents' = agents]_vars

\* an agent that died in the second step has been activated in the third
C13_Witness ==
    /\ recovery_days = 1
    /\ step_counter = 3
    /\ pc = "schedule"
    /\ \E i \in schedule_agents \ pending :
          /\ agents[i].infectionstate = DEAD
          /\ agents[i].infected_time = 0
          /\ \E c \in DOMAIN grid : grid[c] = i

\* the agent activated by a transition of the pass
Activated(i) == pc = "schedule" /\ i \in pending /\ i \notin pending'

\* C14: an agent leaves Clean only in its own activation, only for Infected, only
\* when the action it drew in that activation is not "Stay In", and its
\* infected_time is then the scheduler's time of that tick
C14_InfectionOnlyWhenOut ==
    [][\A i \in schedule_agents :
          (agents[i].infectionstate = CLEAN /\ agents'[i].infectionstate # CLEAN) =>
             /\ Activated(i)
             /\ agents'[i].infectionstate = INFECTED
             /\ agents'[i].action_done # <<>>
             /\ agents'[i].action_done # <<"Stay In">>
             /\ agents'[i].infected_time = schedule_time]_vars

\* an agent was infected in a tick after the first while another one stayed in
\* and is still Clean
C14_Witness ==
    /\ \E i \in schedule_agents :
          /\ agents[i].infectionstate = INFECTED
          /\ agents[i].infected_time >= 1
          /\ agents[i].action_done # <<"Stay In">>
    /\ \E j \in schedule_agents :
          /\ agents[j].infectionstate = CLEAN
          /\ agents[j].action_done = <<"Stay In">>

\* C15: the activation of an Infected agent leaves it Infected and the death
\* counter unchanged while now - infected_time < recovery_days; otherwise it ends
\* in Recovered with the counter unchanged or in Dead with the counter one higher;
\* an agent infected at construction has infected_time 0
C15_ProgressionAfterRecoveryDays ==
    /\ \A i \in schedule_agents :
          agents[i].infectionstate = INFECTED => agents[i].infected_time = 0
    /\ [][\A i \in schedule_agents :
             (Activated(i) /\ agents[i].infectionstate = INFECTED) =>
                IF schedule_time - agents[i].infected_time < recovery_days
                THEN /\ agents'[i].infectionstate = INFECTED
                     /\ dead_agents_number' = dead_agents_number
                ELSE \/ /\ agents'[i].infectionstate = RECOVERED
                        /\ dead_agents_number' = dead_agents_number
                     \/ /\ agents'[i].infectionstate = DEAD
                        /\ dead_agents_number' = dead_agents_number + 1]_vars

\* with recovery_days = 2, one agent infected at time 0 has recovered and another died
C15_Witness ==
    /\ recovery_days = 2
    /\ dead_agents_number = 1
    /\ \E i \in schedule_agents :
          agents[i].infectionstate = RECOVERED /\ agents[i].infected_time = 0
    /\ \E j \in schedule_agents :
          agents[j].infectionstate = DEAD /\ agents[j].infected_time = 0

\* C16: an agent infected at construction is Free, and the quarantine state of an
\* agent changes only in the transition that takes it from Clean to Infected
C16_QuarantineSetOnceAtInfection ==
    /\ \A i \in schedule_agents :
          agents[i].infectionstate = INFECTED => agents[i].quarantinestate = FREE
    /\ [][\A i \in schedule_agents :
             agents'[i].quarantinestate # agents[i].quarantinestate =>
                /\ agents[i].infectionstate = CLEAN
                /\ agents'[i].infectionstate = INFECTED]_vars

\* an agent quarantined at its infection is still quarantined after it left Infected,
\* next to an agent that was infected and is still Free
C16_Witness ==
    /\ \E i \in schedule_agents :
          /\ agents[i].quarantinestate = QUARANTINE
          /\ agents[i].infectionstate \in {RECOVERED, DEAD}
    /\ \E j \in schedule_agents :
          /\ agents[j].quarantinestate = FREE
          /\ agents[j].infectionstate \in {RECOVERED, DEAD}

\* C17: the three grid counts and the death counter add up to total_population,
\* which is the number of agents placed and never changes; the death counter is
\* the number of Dead agents; the termination check holds exactly when no agent
\* is Infected
C17_PopulationPartition ==
    /\ [](/\ model_get_susceptible_number + model_get_infection_number
               + model_get_recovered_number + dead_agents_number = total_population
          /\ total_population = Cardinality({c \in DOMAIN grid : grid[c] # 0})
          /\ dead_agents_number = Cardinality(AgentsIn(DEAD))
          /\ TerminationCheck <=> AgentsIn(INFECTED) = {})
    /\ [][total_population' = total_population]_vars

\* a step() ended the run with a Clean and a Dead agent and nobody Infected
C17_Witness ==
    /\ StepCompleted
    /\ ~running
    /\ dead_agents_number = 1
    /\ AgentsIn(CLEAN) # {}
    /\ AgentsIn(DEAD) # {}

\* C18: after a call of step() on a model none of whose agents was ever infected
\* (all are Clean), running is false
C18_NoInfectionHaltsAfterFirstStep ==
    (/\ step_counter >= 1
     /\ pc = "idle"
     /\ \A i \in schedule_agents : agents[i].infectionstate = CLEAN) => ~running

\* C19: the reporters that scan the schedule and the methods that scan the grid
\* return the same counts; the agents on the grid are the agents of the schedule,
\* each in one cell
C19_ScheduleAndGridQueriesAgree ==
    /\ get_susceptible_number = model_get_susceptible_number
    /\ get_infected_number = model_get_infection_number
    /\ get_recovered_number = model_get_recovered_number
    /\ get_stay_in = model_get_stay_in_number
    /\ get_go_out = model_get_stay_out_number
    /\ {grid[c] : c \in DOMAIN grid} \ {0} = schedule_agents
    /\ \A c, d \in DOMAIN grid : (grid[c] # 0 /\ grid[c] = grid[d]) => c = d

\* after a step two agents are in different infection states, one stayed in and
\* one went out
C19_Witness ==
    /\ StepCompleted
    /\ get_stay_in = 1
    /\ get_go_out = 1
    /\ get_infected_number = 1
    /\ get_recovered_number = 1

=============================================================================
